---- MODULE Spec2Model ----
(***************************************************************************)
(* Model of src/app.py: the per-stream encoder supervision (StreamManager),*)
(* the module-level registry active_streams with its Flask handlers run by *)
(* concurrent request threads, and the GitLab trigger-and-poll resolver.   *)
(*                                                                         *)
(* The handlers take no lock, so a request thread is modelled as a program *)
(* counter that advances one shared-memory access at a time.  Spec lets    *)
(* the threads interleave freely, SeqSpec admits one request at a time,    *)
(* CDSpec interleaves create and delete requests only, PollSpec runs one   *)
(* trigger_gitlab_extraction and wait_for_gitlab_result against a clock,   *)
(* and PollFairSpec adds that the call keeps running.                      *)
(***************************************************************************)
EXTENDS Integers, Sequences, FiniteSets, TLC

(* ---- bounds of the model ---- *)
NThreads == 2
MaxStreams == 2
MaxProcs == 2
MaxUploads == 1
MaxCalls == 3
SeqMaxCalls == 4
CDMaxCalls == 2
MaxTime == 2
PollStartMax == 1
CountCap == 4
FetchCap == 2

(* ---- program constants ---- *)
MaxWait == 120
PollSleep == 5
HttpTimeout == 10
TriggerCreated == 201

NoProcess == 0
NoTime == -1
NoId == 0
NoResponse == 0
Off == -1

Threads == 1..NThreads

VARIABLES
    active_streams,   \* the dict active_streams: its entries array, in insertion
                      \* order, a deleted entry leaving the hole NoId
    streams,          \* the StreamManager objects ever constructed, by stream_id
    uploaded_videos,  \* the dict uploaded_videos: the set of its keys
    procs,            \* the encoder child processes ever launched, by pid
    now,              \* datetime.now(), in ticks
    pc,               \* per request thread: the statement it is about to run
    op,               \* per request thread: the request it serves
    frame,            \* per request thread: the handler's local variables
    ret,              \* per request thread: the response of its last request
    calls,            \* requests accepted so far, by kind
    p_pc,             \* wait_for_gitlab_result: the statement about to run
    p_now,            \* time.time()
    p_start,          \* its local start_time
    p_result,         \* what it returned
    p_sawTerminal,    \* some status response so far was success or failed
    p_trig,           \* trigger_gitlab_extraction: the token, the request, its response
    p_reqs,           \* status requests sent so far, counted up to CountCap
    p_fetches,        \* result fetches sent so far, counted up to FetchCap
    p_idle,           \* time since the latest status request returned, up to PollSleep
    p_script,         \* how many status responses so far follow Script, or Off
    p_lastFetch,      \* the response to the latest result fetch
    p_published,      \* whose result stream_result.json holds
    p_payload         \* whose result the call returned

regVars == <<active_streams, streams, uploaded_videos, procs, now>>
thrVars == <<pc, op, frame, ret, calls>>
pollVars == <<p_pc, p_now, p_start, p_result, p_sawTerminal, p_trig, p_reqs,
             p_fetches, p_idle, p_script, p_lastFetch, p_published, p_payload>>
vars == <<active_streams, streams, uploaded_videos, procs, now,
          pc, op, frame, ret, calls,
          p_pc, p_now, p_start, p_result, p_sawTerminal, p_trig, p_reqs,
          p_fetches, p_idle, p_script, p_lastFetch, p_published, p_payload>>

(* ======================= StreamManager ================================= *)

\* mutant: the constructor leaves the status at "Stopped"
NewStream_Stopped(id, name, stype, path, key, info) ==
    [stream_id |-> id, stream_name |-> name, source_type |-> stype,
     source_path |-> path, stream_key |-> key, video_info |-> info,
     process |-> NoProcess, is_streaming |-> FALSE,
     start_time |-> NoTime, status |-> "Stopped"]

NewStream(id, name, stype, path, key, info) ==
    [stream_id |-> id, stream_name |-> name, source_type |-> stype,
     source_path |-> path, stream_key |-> key, video_info |-> info,
     process |-> NoProcess, is_streaming |-> FALSE,
     start_time |-> NoTime, status |-> "Ready"]

DigitChar(d) ==
    CASE d = 0 -> "0" [] d = 1 -> "1" [] d = 2 -> "2" [] d = 3 -> "3"
      [] d = 4 -> "4" [] d = 5 -> "5" [] d = 6 -> "6" [] d = 7 -> "7"
      [] d = 8 -> "8" [] OTHER -> "9"

RECURSIVE Dec(_)
Dec(n) == IF n < 10 THEN <<DigitChar(n)>>
          ELSE Dec(n \div 10) \o <<DigitChar(n % 10)>>

TwoDigits(n) == <<DigitChar(n \div 10), DigitChar(n % 10)>>

\* str(timedelta).split('.')[0] of a delta of `ticks` clock ticks
TimedeltaStr(ticks) ==
    LET secs == ticks \div 2    \* the clock ticks twice a second
        days == secs \div 86400
        rest == secs % 86400
        hms  == Dec(rest \div 3600) \o <<":">> \o TwoDigits((rest % 3600) \div 60)
                \o <<":">> \o TwoDigits(rest % 60)
    IN  IF days = 0 THEN hms
        ELSE Dec(days) \o <<IF days = 1 THEN " day, " ELSE " days, ">> \o hms

ZeroDuration == <<"0", "0", ":", "0", "0", ":", "0", "0">>

get_duration(s) ==
    IF s.start_time # NoTime /\ s.is_streaming
    THEN TimedeltaStr(now - s.start_time)
    ELSE ZeroDuration

\* mutant: the view carries the destination key
to_dict_WithKey(s) ==
    [stream_id |-> s.stream_id, stream_name |-> s.stream_name,
     source_type |-> s.source_type, source_path |-> s.source_path,
     video_info |-> s.video_info, is_streaming |-> s.is_streaming,
     status |-> s.status, duration |-> get_duration(s),
     start_time |-> s.start_time, stream_key |-> s.stream_key]

to_dict(s) ==
    [stream_id |-> s.stream_id, stream_name |-> s.stream_name,
     source_type |-> s.source_type, source_path |-> s.source_path,
     video_info |-> s.video_info, is_streaming |-> s.is_streaming,
     status |-> s.status, duration |-> get_duration(s),
     start_time |-> s.start_time]

\* `if self.is_streaming: return False, "Stream already running"`
StartRejected(s) == s.is_streaming

\* mutant: stop_streaming without its guard
StopRejected_Missing(s) == FALSE

\* mutant: the guard of stop_streaming reads the status text, not the flag
StopRejected_ByStatus(s) == s.status # "Streaming" \/ s.process = NoProcess

\* `if not self.is_streaming or self.process is None: return False, ...`
StopRejected(s) == ~s.is_streaming \/ s.process = NoProcess

(* ======================= the registry ================================== *)

\* `stream_id in active_streams`
InRegistry(id) == \E i \in 1..Len(active_streams) : active_streams[i] = id /\ id # NoId

RegisteredIds == {active_streams[i] : i \in 1..Len(active_streams)} \ {NoId}

\* len(active_streams)
DictLen == Cardinality(RegisteredIds)

\* mutant: delete_stream without its `del`
RemoveKey_Forgotten(id) == active_streams

\* the entries array after `del active_streams[id]`
RemoveKey(id) ==
    [i \in 1..Len(active_streams) |->
        IF active_streams[i] = id THEN NoId ELSE active_streams[i]]

\* streams deleted so far: constructed and inserted once, no longer a key
WasDeleted(id) == id \in 1..Len(streams) /\ ~InRegistry(id)

NoStream == NewStream(NoId, "", "", "", "", "")

Snapshot(id) ==
    [present |-> InRegistry(id), gone |-> WasDeleted(id),
     st |-> IF id \in 1..Len(streams) THEN streams[id] ELSE NoStream]

\* the JSON body of a create request, with what came of its source: whether the
\* video id was a key of uploaded_videos, and how the resolution of the URL ended
NoInput ==
    [name |-> "", key |-> "", stype |-> "", vid |-> 0, known |-> FALSE,
     url |-> "", res |-> "ok"]

EmptyFrame ==
    [stream |-> NoId, wp |-> NoProcess, caller |-> "", input |-> NoInput,
     name |-> "", key |-> "", stype |-> "", path |-> "", info |-> "",
     it_pos |-> 0, it_used |-> 0, it_len |-> 0, acc |-> <<>>,
     total |-> 0, active |-> 0]

Kinds == {"create", "start", "stop", "delete", "list"}

TotalCalls ==
    calls["create"] + calls["start"] + calls["stop"] + calls["delete"] + calls["list"]

\* str.strip() of the request's text fields
Strip(x) == IF x = " " THEN "" ELSE x

Names == {"", " ", "cam"}
StreamKeys == {"", "k1"}
SourceTypes == {"upload", "youtube", "rtsp"}
Urls == {"", "u1"}
ResolveOutcomes ==
    {"ok", "SubmissionError", "PipelineError", "TimeoutError", "ExtractionError"}

SetPc(t, p) == pc' = [pc EXCEPT ![t] = p]

Finish(t, code) ==
    /\ pc' = [pc EXCEPT ![t] = "idle"]
    /\ ret' = [ret EXCEPT ![t] = code]

\* Threads are interchangeable: a request is taken by the lowest idle thread.
LowestIdle(t) == pc[t] = "idle" /\ \A u \in Threads : u < t => pc[u] # "idle"

(* ---- a request arrives ---- *)

\* the request, with the state of its stream when it arrived and, for a create,
\* the registry and the streams as they were then
Request(kind, id) ==
    [kind |-> kind, id |-> id, pre |-> Snapshot(id),
     reg |-> IF kind = "create" THEN active_streams ELSE <<>>,
     objs |-> IF kind = "create" THEN streams ELSE <<>>]

Accept(t, kind, request, first) ==
    /\ LowestIdle(t)
    /\ op' = [op EXCEPT ![t] = request]
    /\ frame' = [frame EXCEPT ![t] = EmptyFrame]
    /\ ret' = [ret EXCEPT ![t] = "none"]
    /\ calls' = [calls EXCEPT ![kind] = @ + 1]
    /\ SetPc(t, first)
    /\ UNCHANGED <<regVars, pollVars>>

BeginCreate(t) ==
    /\ Len(streams) + Cardinality({u \in Threads : op[u].kind = "create" /\ pc[u] # "idle"})
          < MaxStreams
    /\ Accept(t, "create", Request("create", NoId), "c_validate")

BeginOnStream(t, kind) ==
    \E id \in 1..MaxStreams : Accept(t, kind, Request(kind, id), "h_in")

BeginList(t) == Accept(t, "list", Request("list", NoId), "l_iter")

Begin(t) ==
    \/ BeginCreate(t)
    \/ BeginOnStream(t, "start")
    \/ BeginOnStream(t, "stop")
    \/ BeginOnStream(t, "delete")
    \/ BeginList(t)

(* ---- start_specific_stream / stop_specific_stream / delete_stream:
        the lookup they share ---- *)

\* `if stream_id not in active_streams: return ... 'Stream not found'`
HandlerCheck(t) ==
    /\ pc[t] = "h_in"
    /\ IF InRegistry(op[t].id)
       THEN SetPc(t, "h_get") /\ UNCHANGED ret
       ELSE Finish(t, "NotFound")
    /\ UNCHANGED <<regVars, op, frame, calls, pollVars>>

\* `stream = active_streams[stream_id]`: a KeyError is caught by no handler
HandlerLookup(t) ==
    /\ pc[t] = "h_get"
    /\ IF InRegistry(op[t].id)
       THEN /\ frame' = [frame EXCEPT ![t].stream = op[t].id]
            /\ SetPc(t, CASE op[t].kind = "start" -> "s_guard"
                          [] op[t].kind = "stop" -> "t_guard"
                          [] OTHER -> "del_check")
            /\ UNCHANGED ret
       ELSE Finish(t, "Unhandled") /\ UNCHANGED frame
    /\ UNCHANGED <<regVars, op, calls, pollVars>>

(* ---- StreamManager.start_streaming ---- *)

StartGuard(t) ==
    /\ pc[t] = "s_guard"
    /\ IF StartRejected(streams[frame[t].stream])
       THEN Finish(t, "AlreadyRunning")
       ELSE SetPc(t, "s_popen") /\ UNCHANGED ret
    /\ UNCHANGED <<regVars, op, frame, calls, pollVars>>

\* `self.process = subprocess.Popen(...)`: the spawn may fail
StartPopen(t) ==
    /\ pc[t] = "s_popen"
    /\ \E launched \in BOOLEAN :
          IF launched /\ Len(procs) < MaxProcs
          THEN /\ procs' = Append(procs, [state |-> "running", owner |-> frame[t].stream])
               /\ streams' = [streams EXCEPT ![frame[t].stream].process = Len(procs) + 1]
               /\ SetPc(t, "s_flag")
          ELSE /\ UNCHANGED <<procs, streams>>
               /\ SetPc(t, "s_err")
    /\ UNCHANGED <<active_streams, uploaded_videos, now, op, frame, ret, calls, pollVars>>

StartSetFlag(t) ==
    /\ pc[t] = "s_flag"
    /\ streams' = [streams EXCEPT ![frame[t].stream].is_streaming = TRUE]
    /\ SetPc(t, "s_time")
    /\ UNCHANGED <<active_streams, uploaded_videos, procs, now, op, frame, ret, calls, pollVars>>

StartSetTime(t) ==
    /\ pc[t] = "s_time"
    /\ streams' = [streams EXCEPT ![frame[t].stream].start_time = now]
    /\ SetPc(t, "s_status")
    /\ UNCHANGED <<active_streams, uploaded_videos, procs, now, op, frame, ret, calls, pollVars>>

StartSetStatus(t) ==
    /\ pc[t] = "s_status"
    /\ streams' = [streams EXCEPT ![frame[t].stream].status = "Streaming"]
    /\ Finish(t, "OK")
    /\ UNCHANGED <<active_streams, uploaded_videos, procs, now, op, frame, calls, pollVars>>

\* `except Exception as e: self.status = "Error"`
StartExcept(t) ==
    /\ pc[t] = "s_err"
    /\ streams' = [streams EXCEPT ![frame[t].stream].status = "Error"]
    /\ Finish(t, "StartFailure")
    /\ UNCHANGED <<active_streams, uploaded_videos, procs, now, op, frame, calls, pollVars>>

(* ---- StreamManager.stop_streaming, called by stop_specific_stream
        and by delete_stream ---- *)

\* stop_streaming returns: delete_stream drops the result and goes on
StopReturn(t, code) ==
    IF frame[t].caller = "delete"
    THEN SetPc(t, "del_del") /\ UNCHANGED ret
    ELSE Finish(t, code)

StopGuard(t) ==
    /\ pc[t] = "t_guard"
    /\ IF StopRejected(streams[frame[t].stream])
       THEN StopReturn(t, "NotRunning")
       ELSE SetPc(t, "t_term") /\ UNCHANGED ret
    /\ UNCHANGED <<regVars, op, frame, calls, pollVars>>

\* `self.process.terminate()`: None has no terminate; the signal may fail
StopTerminate(t) ==
    /\ pc[t] = "t_term"
    /\ LET p == streams[frame[t].stream].process IN
       IF p = NoProcess
       THEN SetPc(t, "t_err") /\ UNCHANGED procs
       ELSE \E sent \in BOOLEAN :
               IF sent
               THEN /\ procs' = [procs EXCEPT ![p].state =
                                    IF @ = "running" THEN "signalled" ELSE @]
                    /\ SetPc(t, "t_wait")
               ELSE SetPc(t, "t_err") /\ UNCHANGED procs
    /\ UNCHANGED <<active_streams, streams, uploaded_videos, now, op, frame, ret, calls, pollVars>>

\* `self.process.wait(timeout=10)`: the handle is read again, then it blocks
StopWaitBegin(t) ==
    /\ pc[t] = "t_wait"
    /\ LET p == streams[frame[t].stream].process IN
       IF p = NoProcess
       THEN SetPc(t, "t_err") /\ UNCHANGED frame
       ELSE frame' = [frame EXCEPT ![t].wp = p] /\ SetPc(t, "t_waited")
    /\ UNCHANGED <<regVars, op, ret, calls, pollVars>>

\* the wait ends: a signalled encoder exits in time or not; one that was never
\* signalled loops over its input forever and the wait times out
StopWaitEnd(t) ==
    /\ pc[t] = "t_waited"
    /\ LET p == frame[t].wp IN
       CASE procs[p].state = "exited" -> SetPc(t, "t_clear") /\ UNCHANGED procs
         [] procs[p].state = "signalled" ->
              \E exits \in BOOLEAN :
                 IF exits
                 THEN procs' = [procs EXCEPT ![p].state = "exited"] /\ SetPc(t, "t_clear")
                 ELSE SetPc(t, "t_err") /\ UNCHANGED procs
         [] OTHER -> SetPc(t, "t_err") /\ UNCHANGED procs
    /\ UNCHANGED <<active_streams, streams, uploaded_videos, now, op, frame, ret, calls, pollVars>>

StopClearProcess(t) ==
    /\ pc[t] = "t_clear"
    /\ streams' = [streams EXCEPT ![frame[t].stream].process = NoProcess]
    /\ SetPc(t, "t_flag")
    /\ UNCHANGED <<active_streams, uploaded_videos, procs, now, op, frame, ret, calls, pollVars>>

StopClearFlag(t) ==
    /\ pc[t] = "t_flag"
    /\ streams' = [streams EXCEPT ![frame[t].stream].is_streaming = FALSE]
    /\ SetPc(t, "t_time")
    /\ UNCHANGED <<active_streams, uploaded_videos, procs, now, op, frame, ret, calls, pollVars>>

StopClearTime(t) ==
    /\ pc[t] = "t_time"
    /\ streams' = [streams EXCEPT ![frame[t].stream].start_time = NoTime]
    /\ SetPc(t, "t_status")
    /\ UNCHANGED <<active_streams, uploaded_videos, procs, now, op, frame, ret, calls, pollVars>>

StopSetStatus(t) ==
    /\ pc[t] = "t_status"
    /\ streams' = [streams EXCEPT ![frame[t].stream].status = "Stopped"]
    /\ StopReturn(t, "OK")
    /\ UNCHANGED <<active_streams, uploaded_videos, procs, now, op, frame, calls, pollVars>>

\* `except Exception as e: self.status = "Error"`
StopExcept(t) ==
    /\ pc[t] = "t_err"
    /\ streams' = [streams EXCEPT ![frame[t].stream].status = "Error"]
    /\ StopReturn(t, "StopFailure")
    /\ UNCHANGED <<active_streams, uploaded_videos, procs, now, op, frame, calls, pollVars>>

(* ---- delete_stream ---- *)

\* `if stream.is_streaming: stream.stop_streaming()`
DeleteCheckRunning(t) ==
    /\ pc[t] = "del_check"
    /\ IF streams[frame[t].stream].is_streaming
       THEN frame' = [frame EXCEPT ![t].caller = "delete"] /\ SetPc(t, "t_guard")
       ELSE SetPc(t, "del_del") /\ UNCHANGED frame
    /\ UNCHANGED <<regVars, op, ret, calls, pollVars>>

\* `del active_streams[stream_id]`: a KeyError is caught by no handler
DeleteRemove(t) ==
    /\ pc[t] = "del_del"
    /\ IF InRegistry(op[t].id)
       THEN active_streams' = RemoveKey(op[t].id) /\ Finish(t, "OK")
       ELSE Finish(t, "Unhandled") /\ UNCHANGED active_streams
    /\ UNCHANGED <<streams, uploaded_videos, procs, now, op, frame, calls, pollVars>>

(* ---- get_all_streams ---- *)

\* `for stream in active_streams.values()`: the iterator remembers the size
ListIter(t) ==
    /\ pc[t] = "l_iter"
    /\ frame' = [frame EXCEPT ![t].it_pos = 1, ![t].it_used = DictLen,
                              ![t].it_len = DictLen]
    /\ SetPc(t, "l_next")
    /\ UNCHANGED <<regVars, op, ret, calls, pollVars>>

\* the first live entry at or after position i of the entries array, or 0
RECURSIVE NextLive(_)
NextLive(i) ==
    IF i > Len(active_streams) THEN 0
    ELSE IF active_streams[i] # NoId THEN i ELSE NextLive(i + 1)

\* one turn of the loop: next() of the values iterator, then
\* `streams_data.append(stream.to_dict())`
ListNext(t) ==
    /\ pc[t] = "l_next"
    /\ LET f == frame[t]
           i == NextLive(f.it_pos) IN
       IF f.it_used # DictLen
       THEN Finish(t, "Unhandled") /\ UNCHANGED frame   \* changed size during iteration
       ELSE IF i = 0
       THEN SetPc(t, "l_counts") /\ UNCHANGED <<frame, ret>>
       ELSE IF f.it_len = 0
       THEN Finish(t, "Unhandled") /\ UNCHANGED frame   \* keys changed during iteration
       ELSE /\ frame' = [frame EXCEPT ![t].it_pos = i + 1, ![t].it_len = f.it_len - 1,
                                      ![t].acc = Append(f.acc, to_dict(streams[active_streams[i]]))]
            /\ UNCHANGED <<pc, ret>>
    /\ UNCHANGED <<regVars, op, calls, pollVars>>

\* `'total_streams': len(active_streams), 'active_streams': sum(...)`
ListCounts(t) ==
    /\ pc[t] = "l_counts"
    /\ frame' = [frame EXCEPT ![t].total = DictLen,
                    ![t].active = Cardinality({id \in RegisteredIds : streams[id].is_streaming})]
    /\ Finish(t, "OK")
    /\ UNCHANGED <<regVars, op, calls, pollVars>>

(* ---- create_stream ---- *)

\* `data = request.get_json()`, the validation and the resolution of the source,
\* up to the construction of the StreamManager
CreateValidate(t) ==
    /\ pc[t] = "c_validate"
    /\ \E name \in Names, key \in StreamKeys, stype \in SourceTypes,
          vid \in 0..MaxUploads, url \in Urls, res \in ResolveOutcomes :
          \* the fields the source type does not read are left at their defaults
          /\ stype # "upload" => vid = 0
          /\ (stype # "youtube" \/ url = "") => res = "ok"
          /\ stype # "youtube" => url = ""
          /\ LET in == [name |-> name, key |-> key, stype |-> stype, vid |-> vid,
                        known |-> vid \in uploaded_videos, url |-> url, res |-> res]
                 Refuse(code) ==
                    /\ Finish(t, code)
                    /\ frame' = [frame EXCEPT ![t].input = in]
                 Build(path, info) ==
                    /\ frame' = [frame EXCEPT ![t].input = in,
                                    ![t].name = Strip(name), ![t].key = Strip(key),
                                    ![t].stype = stype, ![t].path = path,
                                    ![t].info = info]
                    /\ SetPc(t, "c_insert") /\ UNCHANGED ret
             IN IF Strip(name) = "" \/ Strip(key) = ""
                THEN Refuse("ValidationError")
                ELSE CASE stype = "upload" ->
                            IF vid = 0 \/ vid \notin uploaded_videos
                            THEN Refuse("NotFound")
                            ELSE Build("file", "Upload")
                       [] stype = "youtube" ->
                            IF Strip(url) = ""
                            THEN Refuse("ValidationError")
                            ELSE IF res = "ok"
                            THEN Build("direct_url", "YouTube (GitLab Processed)")
                            ELSE Refuse(res)
                       [] OTHER -> Refuse("ValidationError")
    /\ UNCHANGED <<regVars, op, calls, pollVars>>

\* mutant: the identifier handed out last is handed out again
FreshId_Reused == IF Len(streams) = 0 THEN 1 ELSE Len(streams)

\* uuid.uuid4() is taken to be fresh: the next unused identifier
FreshId == Len(streams) + 1

\* `stream = StreamManager(...)` and `active_streams[stream_id] = stream`
CreateInsert(t) ==
    /\ pc[t] = "c_insert"
    /\ streams' = Append(streams,
                         NewStream(FreshId, frame[t].name, frame[t].stype,
                                   frame[t].path, frame[t].key, frame[t].info))
    /\ active_streams' = Append(active_streams, FreshId)
    /\ frame' = [frame EXCEPT ![t].stream = FreshId]
    /\ SetPc(t, "c_view")
    /\ UNCHANGED <<uploaded_videos, procs, now, op, ret, calls, pollVars>>

\* `'stream': stream.to_dict()`
CreateReturn(t) ==
    /\ pc[t] = "c_view"
    /\ frame' = [frame EXCEPT ![t].acc = <<to_dict(streams[frame[t].stream])>>]
    /\ Finish(t, "OK")
    /\ UNCHANGED <<regVars, op, calls, pollVars>>

(* ---- upload_file and the clock ---- *)

upload_file ==
    /\ Cardinality(uploaded_videos) < MaxUploads
    /\ uploaded_videos' = uploaded_videos \cup {Cardinality(uploaded_videos) + 1}
    /\ UNCHANGED <<active_streams, streams, procs, now, thrVars, pollVars>>

\* The clock is read by start_streaming and get_duration only, and only differences
\* to a start_time are observed: it is advanced once some start_time is set.
Tick ==
    /\ now < MaxTime
    /\ \E i \in 1..Len(streams) : streams[i].start_time # NoTime
    /\ now' = now + 1
    /\ UNCHANGED <<active_streams, streams, uploaded_videos, procs, thrVars, pollVars>>

(* ============ trigger_gitlab_extraction, wait_for_gitlab_result ======== *)

\* the trigger's HTTP status; NoResponse when the request raised
TriggerStatuses == {NoResponse, 200, TriggerCreated, 404}

NoTrigger ==
    [called |-> FALSE, token |-> FALSE, sent |-> FALSE,
     status |-> NoResponse, hasId |-> FALSE]

\* mutant: every 2xx response with an id counts as a created pipeline
TriggerAccepted_Any2xx(token, status, hasId) ==
    token /\ status \in 200..299 /\ hasId

\* `if response.status_code == 201:` and `pipeline_info['id']`, whose
\* KeyError the except clause turns into a failure
TriggerAccepted(token, status, hasId) ==
    token /\ status = TriggerCreated /\ hasId

\* trigger_gitlab_extraction and its caller's `if not trigger_result['success']`:
\* on failure the caller returns, on success it enters wait_for_gitlab_result,
\* which reads the clock into start_time
Trigger ==
    /\ p_pc = "trigger"
    /\ \E token \in BOOLEAN, status \in TriggerStatuses, hasId \in BOOLEAN :
          /\ ~token => status = NoResponse
          /\ status = NoResponse => ~hasId
          /\ p_trig' = [called |-> TRUE, token |-> token, sent |-> token,
                        status |-> status, hasId |-> hasId]
          /\ IF TriggerAccepted(token, status, hasId)
             THEN p_pc' = "check" /\ p_start' = p_now /\ UNCHANGED p_result
             ELSE p_pc' = "done" /\ p_result' = "SubmissionError" /\ UNCHANGED p_start
    /\ UNCHANGED <<p_now, p_sawTerminal, p_reqs, p_fetches, p_idle, p_script,
                   p_lastFetch, p_published, p_payload, regVars, thrVars>>

StatusResponses ==
    {"pending", "running", "canceled", "success", "failed", "non200", "neterr"}
ResultResponses == {"ok_success", "ok_failure", "non200", "neterr"}

\* an HTTP request returns, or raises, within its timeout
RequestTimes == 1..HttpTimeout

\* a pipeline that is pending for two polls and then succeeds
Script == <<"pending", "pending", "success">>

Counted(n, cap) == IF n < cap THEN n + 1 ELSE n

IdleFor(n, d) == IF n + d < PollSleep THEN n + d ELSE PollSleep

FollowScript(k, resp) ==
    IF k # Off /\ k < Len(Script) /\ resp = Script[k + 1] THEN k + 1 ELSE Off

NoFetch == [resp |-> "none", content |-> "none"]

\* mutant: the deadline is compared with the clock, not with the elapsed time
WaitCheck_Absolute ==
    /\ p_pc = "check"
    /\ IF p_now < MaxWait
       THEN p_pc' = "status" /\ UNCHANGED p_result
       ELSE p_pc' = "done" /\ p_result' = "TimeoutError"
    /\ UNCHANGED <<p_now, p_start, p_sawTerminal, p_trig, p_reqs, p_fetches,
                   p_idle, p_script, p_lastFetch, p_published, p_payload,
                   regVars, thrVars>>

\* mutant: past the deadline the loop neither polls nor returns
WaitCheck_NoReturn ==
    /\ p_pc = "check"
    /\ p_now - p_start < MaxWait
    /\ p_pc' = "status"
    /\ UNCHANGED <<p_now, p_start, p_result, p_sawTerminal, p_trig, p_reqs,
                   p_fetches, p_idle, p_script, p_lastFetch, p_published,
                   p_payload, regVars, thrVars>>

\* `while time.time() - start_time < max_wait:` and the return after the loop
WaitCheck ==
    /\ p_pc = "check"
    /\ IF p_now - p_start < MaxWait
       THEN p_pc' = "status" /\ UNCHANGED p_result
       ELSE p_pc' = "done" /\ p_result' = "TimeoutError"
    /\ UNCHANGED <<p_now, p_start, p_sawTerminal, p_trig, p_reqs, p_fetches,
                   p_idle, p_script, p_lastFetch, p_published, p_payload,
                   regVars, thrVars>>

\* mutant: a status of success is treated like a status still in progress
StatusBranch_NoFetch(resp) ==
    CASE resp = "non200"  -> "check"
      [] resp = "failed"  -> "done"
      [] OTHER            -> "sleep"

\* where the loop body goes on a status response: the sleep sits inside
\* `if response.status_code == 200:`, so a non-200 response skips it
StatusBranch(resp) ==
    CASE resp = "neterr"  -> "sleep"
      [] resp = "non200"  -> "check"
      [] resp = "success" -> "result"
      [] resp = "failed"  -> "done"
      [] OTHER            -> "sleep"

\* the status request and the branch on its response; a pipeline reported
\* as success has deployed its own stream_result.json
WaitStatusRequest ==
    /\ p_pc = "status"
    /\ \E d \in RequestTimes, resp \in StatusResponses :
          /\ p_now' = p_now + d
          /\ p_idle' = 0
          /\ p_reqs' = Counted(p_reqs, CountCap)
          /\ p_script' = FollowScript(p_script, resp)
          /\ p_sawTerminal' = (p_sawTerminal \/ resp \in {"success", "failed"})
          /\ p_published' = IF resp = "success" THEN "own" ELSE p_published
          /\ p_pc' = StatusBranch(resp)
          /\ p_result' = IF resp = "failed" THEN "PipelineError" ELSE p_result
    /\ UNCHANGED <<p_start, p_trig, p_fetches, p_lastFetch, p_payload,
                   regVars, thrVars>>

\* the fetch of stream_result.json after a status of success: the URL is the
\* same for every pipeline, so the content is whatever was deployed last;
\* a non-200 answer or an exception (`except: pass`) falls through to the sleep
WaitResultFetch ==
    /\ p_pc = "result"
    /\ \E d \in RequestTimes, resp \in ResultResponses :
          /\ p_now' = p_now + d
          /\ p_fetches' = Counted(p_fetches, FetchCap)
          /\ p_idle' = IdleFor(p_idle, d)
          /\ p_lastFetch' =
                [resp |-> resp,
                 content |-> IF resp \in {"ok_success", "ok_failure"}
                             THEN p_published ELSE "none"]
          /\ CASE resp = "ok_success" ->
                    p_pc' = "done" /\ p_result' = "Success" /\ p_payload' = p_published
               [] resp = "ok_failure" ->
                    p_pc' = "done" /\ p_result' = "ExtractionError" /\ UNCHANGED p_payload
               [] OTHER ->
                    p_pc' = "sleep" /\ UNCHANGED <<p_result, p_payload>>
    /\ UNCHANGED <<p_start, p_sawTerminal, p_trig, p_reqs, p_script,
                   p_published, regVars, thrVars>>

\* `time.sleep(5)`, in the loop body and in the except clause alike
WaitSleep ==
    /\ p_pc = "sleep"
    /\ p_now' = p_now + PollSleep
    /\ p_idle' = IdleFor(p_idle, PollSleep)
    /\ p_pc' = "check"
    /\ UNCHANGED <<p_start, p_result, p_sawTerminal, p_trig, p_reqs, p_fetches,
                   p_script, p_lastFetch, p_published, p_payload,
                   regVars, thrVars>>

\* the pipeline of another request (create_stream or fetch_youtube_info for
\* another URL) deploys its result to the same stream_result.json
OtherJobPublishes ==
    /\ p_pc \in {"check", "status", "result", "sleep"}
    /\ p_published = "own"
    /\ p_published' = "other"
    /\ UNCHANGED <<p_pc, p_now, p_start, p_result, p_sawTerminal, p_trig, p_reqs,
                   p_fetches, p_idle, p_script, p_lastFetch, p_payload,
                   regVars, thrVars>>

(* ======================= specifications ================================ *)

NoRequest ==
    [kind |-> "none", id |-> NoId,
     pre |-> [present |-> FALSE, gone |-> FALSE, st |-> NoStream],
     reg |-> <<>>, objs |-> <<>>]

RegistryInit ==
    /\ active_streams = <<>>
    /\ streams = <<>>
    /\ uploaded_videos = {}
    /\ procs = <<>>
    /\ now = 0
    /\ pc = [t \in Threads |-> "idle"]
    /\ op = [t \in Threads |-> NoRequest]
    /\ frame = [t \in Threads |-> EmptyFrame]
    /\ ret = [t \in Threads |-> "none"]
    /\ calls = [k \in Kinds |-> 0]

PollGhostInit ==
    /\ p_trig = NoTrigger /\ p_reqs = 0 /\ p_fetches = 0 /\ p_idle = 0
    /\ p_script = 0 /\ p_lastFetch = NoFetch
    /\ p_published = "none" /\ p_payload = "none"

Init ==
    /\ RegistryInit
    /\ p_pc = "off" /\ p_now = 0 /\ p_start = 0
    /\ p_result = "none" /\ p_sawTerminal = FALSE
    /\ PollGhostInit

PollInit ==
    /\ RegistryInit
    /\ p_start \in 0..PollStartMax
    /\ p_now = p_start
    /\ p_pc = "trigger" /\ p_result = "none" /\ p_sawTerminal = FALSE
    /\ PollGhostInit

Step(t) ==
    \/ HandlerCheck(t) \/ HandlerLookup(t)
    \/ StartGuard(t) \/ StartPopen(t) \/ StartSetFlag(t) \/ StartSetTime(t)
    \/ StartSetStatus(t) \/ StartExcept(t)
    \/ StopGuard(t) \/ StopTerminate(t) \/ StopWaitBegin(t) \/ StopWaitEnd(t)
    \/ StopClearProcess(t) \/ StopClearFlag(t) \/ StopClearTime(t)
    \/ StopSetStatus(t) \/ StopExcept(t)
    \/ DeleteCheckRunning(t) \/ DeleteRemove(t)
    \/ ListIter(t) \/ ListNext(t) \/ ListCounts(t)
    \/ CreateValidate(t) \/ CreateInsert(t) \/ CreateReturn(t)

AllIdle == \A t \in Threads : pc[t] = "idle"

\* requests served by concurrent threads
Next ==
    \/ \E t \in Threads : Step(t)
    \/ \E t \in Threads : TotalCalls < MaxCalls /\ Begin(t)
    \/ upload_file
    \/ Tick

Spec == Init /\ [][Next]_vars

\* one request at a time
SeqNext ==
    \/ \E t \in Threads : Step(t)
    \/ \E t \in Threads : AllIdle /\ TotalCalls < SeqMaxCalls /\ Begin(t)
    \/ upload_file
    \/ Tick

SeqSpec == Init /\ [][SeqNext]_vars

\* create and delete requests only, served by concurrent threads
CDStep(t) ==
    \/ HandlerCheck(t) \/ HandlerLookup(t)
    \/ DeleteCheckRunning(t) \/ DeleteRemove(t)
    \/ CreateValidate(t) \/ CreateInsert(t) \/ CreateReturn(t)

CDNext ==
    \/ \E t \in Threads : CDStep(t)
    \/ \E t \in Threads : TotalCalls < CDMaxCalls /\ BeginCreate(t)
    \/ \E t \in Threads : TotalCalls < CDMaxCalls /\ BeginOnStream(t, "delete")
    \/ upload_file

CDSpec == Init /\ [][CDNext]_vars

ResolverNext ==
    Trigger \/ WaitCheck \/ WaitStatusRequest \/ WaitResultFetch \/ WaitSleep

PollNext == ResolverNext \/ OtherJobPublishes

PollSpec == PollInit /\ [][PollNext]_vars

\* the interpreter goes on running the call: a resolver step that stays
\* enabled is eventually taken
PollFairSpec == PollInit /\ [][PollNext]_vars /\ WF_vars(ResolverNext)

(* ======================= the claims ==================================== *)

Done(t) == pc[t] = "idle" /\ op[t].kind # "none"

Created == 1..Len(streams)

\* the text of a duration of no whole second, as either branch of get_duration writes it
IsZeroDuration(text) == text = ZeroDuration \/ text = TimedeltaStr(0)

EncodersOf(id) == {p \in 1..Len(procs) : procs[p].owner = id}

\* C1 (as claimed; Spec): when the only start() calls so far are two calls on the
\* same stream, both arrived while it was not running, no stop or delete was
\* requested and no launch failed, then one of the two returned success, the other
\* AlreadyRunning, and one encoder was launched for the stream.
C1_ConcurrentStarts ==
    \A t1, t2 \in Threads :
        ( /\ t1 # t2 /\ Done(t1) /\ Done(t2)
          /\ op[t1].kind = "start" /\ op[t2].kind = "start"
          /\ op[t1].id = op[t2].id
          /\ op[t1].pre.present /\ op[t2].pre.present
          /\ ~op[t1].pre.st.is_streaming /\ ~op[t2].pre.st.is_streaming
          /\ calls["start"] = 2 /\ calls["stop"] = 0 /\ calls["delete"] = 0
          /\ ret[t1] # "StartFailure" /\ ret[t2] # "StartFailure" )
        => /\ {ret[t1], ret[t2]} = {"OK", "AlreadyRunning"}
           /\ Cardinality(EncodersOf(op[t1].id)) = 1

\* C2 (as claimed; SeqSpec): between requests, every stream has a process handle
\* exactly when its status is Streaming, and a start timestamp exactly when its
\* status is Streaming.
C2_HandleIffStreaming ==
    AllIdle =>
        \A id \in Created :
            /\ (streams[id].process # NoProcess) <=> (streams[id].status = "Streaming")
            /\ (streams[id].start_time # NoTime) <=> (streams[id].status = "Streaming")

\* C3 (SeqSpec): a stop() that arrives at a registered stream whose status is Ready
\* (never started) or Stopped (after a successful stop, no start since) returns
\* NotRunning and leaves every field of the stream as it was.
C3_StopNotRunning ==
    \A t \in Threads :
        ( /\ Done(t) /\ op[t].kind = "stop" /\ op[t].pre.present
          /\ op[t].pre.st.status \in {"Ready", "Stopped"} )
        => /\ ret[t] = "NotRunning"
           /\ streams[op[t].id] = op[t].pre.st

\* a second stop in a row has been refused: the stream was Stopped when it arrived
C3_Witness ==
    \E t \in Threads :
        /\ Done(t) /\ op[t].kind = "stop" /\ op[t].pre.present
        /\ op[t].pre.st.status = "Stopped" /\ ret[t] = "NotRunning"

\* C4 (SeqSpec): a delete() that arrives at a registered identifier returns success
\* and the identifier is no longer a key; a start, stop or delete that arrives at a
\* deleted identifier returns NotFound; a list returns no view of a deleted stream.
C4_DeleteRemoves ==
    \A t \in Threads :
        Done(t) =>
            /\ (op[t].kind = "delete" /\ op[t].pre.present)
                  => (ret[t] = "OK" /\ ~InRegistry(op[t].id))
            /\ (op[t].kind \in {"start", "stop", "delete"} /\ op[t].pre.gone)
                  => ret[t] = "NotFound"
            /\ op[t].kind = "list"
                  => \A i \in 1..Len(frame[t].acc) : ~WasDeleted(frame[t].acc[i].stream_id)

\* a running stream was deleted although its forced stop failed
C4_Witness ==
    \E t \in Threads :
        /\ Done(t) /\ op[t].kind = "delete" /\ op[t].pre.st.is_streaming
        /\ ret[t] = "OK" /\ streams[op[t].id].status = "Error"
        /\ ~InRegistry(op[t].id)

\* C5 (as claimed; Spec): no start, stop or delete request ends in an unhandled
\* exception, and of two delete() calls that both arrived at the same registered
\* identifier, the only deletes so far, one returns success and the other NotFound.
C5_StructuredResults ==
    /\ \A t \in Threads :
          op[t].kind \in {"start", "stop", "delete"} => ret[t] # "Unhandled"
    /\ \A t1, t2 \in Threads :
          ( /\ t1 # t2 /\ Done(t1) /\ Done(t2)
            /\ op[t1].kind = "delete" /\ op[t2].kind = "delete"
            /\ op[t1].id = op[t2].id /\ op[t1].pre.present /\ op[t2].pre.present
            /\ calls["delete"] = 2 )
          => {ret[t1], ret[t2]} = {"OK", "NotFound"}

\* C6 (as claimed; Spec): a list() never ends in an exception, and the views it
\* returns are in registration order, each of a stream that was registered.
C6_ListSnapshot ==
    \A t \in Threads :
        op[t].kind = "list" =>
            /\ ret[t] \in {"none", "OK"}
            /\ \A i \in 1..Len(frame[t].acc) :
                  /\ frame[t].acc[i].stream_id \in Created
                  /\ \A j \in 1..Len(frame[t].acc) :
                        i < j => frame[t].acc[i].stream_id < frame[t].acc[j].stream_id

\* C7 (as claimed; SeqSpec): a start() returns AlreadyRunning only if the status was
\* Streaming when it arrived; arriving at a registered stream whose status is Ready,
\* Stopped or Error it ends in Streaming with success or in Error with StartFailure.
C7_AlreadyRunningOnlyStreaming ==
    \A t \in Threads :
        (Done(t) /\ op[t].kind = "start" /\ op[t].pre.present) =>
            /\ ret[t] = "AlreadyRunning" => op[t].pre.st.status = "Streaming"
            /\ op[t].pre.st.status \in {"Ready", "Stopped", "Error"} =>
                  \/ ret[t] = "OK" /\ streams[op[t].id].status = "Streaming"
                  \/ ret[t] = "StartFailure" /\ streams[op[t].id].status = "Error"

\* C8 (SeqSpec): between requests, a stream whose status is Error is accepted by
\* start() or by stop(); and a start() or stop() that arrives at a stream in Error
\* and is accepted ends in Streaming, respectively Stopped, when it returns success,
\* and otherwise returns StartFailure, respectively StopFailure.
C8_ErrorRecoverable ==
    /\ AllIdle =>
          \A id \in Created :
              streams[id].status = "Error" =>
                  ~StartRejected(streams[id]) \/ ~StopRejected(streams[id])
    /\ \A t \in Threads :
          (Done(t) /\ op[t].pre.present /\ op[t].pre.st.status = "Error") =>
              /\ (op[t].kind = "start" /\ ~StartRejected(op[t].pre.st)) =>
                    /\ ret[t] \in {"OK", "StartFailure"}
                    /\ ret[t] = "OK" => streams[op[t].id].status = "Streaming"
              /\ (op[t].kind = "stop" /\ ~StopRejected(op[t].pre.st)) =>
                    /\ ret[t] \in {"OK", "StopFailure"}
                    /\ ret[t] = "OK" => streams[op[t].id].status = "Stopped"

\* a stop() arrived at a stream left in Error by a failed stop, and stopped it
C8_Witness ==
    \E t \in Threads :
        /\ Done(t) /\ op[t].kind = "stop" /\ op[t].pre.present
        /\ op[t].pre.st.status = "Error" /\ ret[t] = "OK"
        /\ streams[op[t].id].status = "Stopped"

\* C9 (as claimed; SeqSpec): between requests, a stream whose status is not
\* Streaming has the zero duration, from get_duration and in its view.
C9_ZeroUnlessStreaming ==
    AllIdle =>
        \A id \in Created :
            streams[id].status # "Streaming" =>
                /\ IsZeroDuration(get_duration(streams[id]))
                /\ IsZeroDuration(to_dict(streams[id]).duration)

\* C10 (PollSpec): TimeoutError is returned only once 120 time-units have elapsed;
\* and while no status response was success or failed, the loop has not run past
\* 120 time-units plus one iteration (a request and a sleep), and once the poll
\* loop has returned its result is TimeoutError.
C10_TimeoutBound ==
    /\ p_result = "TimeoutError" => p_now - p_start >= MaxWait
    /\ ~p_sawTerminal => p_now - p_start < MaxWait + HttpTimeout + PollSleep
    /\ (p_pc = "done" /\ p_result # "SubmissionError" /\ ~p_sawTerminal)
          => p_result = "TimeoutError"

\* the loop ran out of time without ever seeing a terminal status
C10_Witness ==
    /\ p_pc = "done" /\ p_result = "TimeoutError" /\ ~p_sawTerminal
    /\ p_now - p_start > MaxWait

\* C11 (PollSpec): a status request that follows an earlier one is sent only after
\* a full poll interval has passed since the earlier one returned, whatever that
\* one produced.
C11_PollInterval ==
    (p_pc = "status" /\ p_reqs > 0) => p_idle >= PollSleep

\* C12 (PollSpec): a call fetches the result at most once, and after a fetch that
\* failed (exception, non-200) or whose payload says success=false the call has
\* returned ExtractionError, so that nothing more is requested.
C12_FetchOnceThenFail ==
    /\ p_fetches <= 1
    /\ p_lastFetch.resp \in {"ok_failure", "non200", "neterr"}
          => p_pc = "done" /\ p_result = "ExtractionError"

\* C13 (PollSpec): while the status responses are pending, pending no fetch is
\* made; once they are pending, pending, success the third status request is the
\* last one and the fetch comes next; and when that fetch brings a successful
\* payload the call has returned it, after three status requests and one fetch.
C13_PendingPendingSuccess ==
    /\ (p_script # Off /\ p_script < Len(Script)) => p_fetches = 0
    /\ (p_script = Len(Script) /\ p_fetches = 0)
          => p_pc = "result" /\ p_reqs = Len(Script)
    /\ (p_script = Len(Script) /\ p_lastFetch.resp = "ok_success")
          => /\ p_pc = "done" /\ p_result = "Success"
             /\ p_payload = p_lastFetch.content
             /\ p_reqs = Len(Script) /\ p_fetches = 1

\* pending, pending, success, a successful payload, and the call has returned
C13_Witness ==
    /\ p_script = Len(Script) /\ p_lastFetch.resp = "ok_success"
    /\ p_pc = "done" /\ p_result = "Success" /\ p_reqs = 3

\* C14 as stated (PollSpec): the submission succeeds for every 2xx trigger response
\* with a job id and fails with SubmissionError for every non-2xx one; without a
\* token nothing is sent; after a failure no status poll is made.
C14_Any2xxAccepted ==
    p_trig.called =>
       /\ (p_trig.sent /\ p_trig.status \in 200..299 /\ p_trig.hasId)
             => p_result # "SubmissionError"
       /\ (p_trig.sent /\ p_trig.status \notin 200..299)
             => p_result = "SubmissionError"
       /\ ~p_trig.token => ~p_trig.sent /\ p_result = "SubmissionError"
       /\ p_result = "SubmissionError"
             => p_pc = "done" /\ p_reqs = 0 /\ p_fetches = 0

\* C14 (PollSpec): the submission succeeds exactly for a trigger response of status
\* 201 that carries a job id; every other response, another 2xx included, and a
\* request that raises fail with SubmissionError; without a token nothing is
\* sent; after a failure no status poll and no fetch is made.
C14_Only201Accepted ==
    p_trig.called =>
       /\ (p_trig.sent /\ p_trig.status = TriggerCreated /\ p_trig.hasId)
             => p_result # "SubmissionError"
       /\ (p_trig.sent /\ ~(p_trig.status = TriggerCreated /\ p_trig.hasId))
             => p_result = "SubmissionError"
       /\ ~p_trig.token => ~p_trig.sent /\ p_result = "SubmissionError"
       /\ p_result = "SubmissionError"
             => p_pc = "done" /\ p_reqs = 0 /\ p_fetches = 0

\* a 200 response with a job id was refused, and nothing was polled
C14_Witness ==
    /\ p_trig.sent /\ p_trig.status = 200 /\ p_trig.hasId
    /\ p_pc = "done" /\ p_result = "SubmissionError" /\ p_reqs = 0

\* C15 (SeqSpec): a create with an empty name or key, an unknown upload, or a
\* failed resolution is refused; a refused create leaves the registry and every
\* stream as they were when it arrived; an accepted one adds one entry, for a new
\* stream that is Ready with no process and no start time, and changes nothing else.
C15_CreateFrame ==
    \A t \in Threads :
        (Done(t) /\ op[t].kind = "create") =>
            LET in == frame[t].input
                n  == Len(op[t].objs)
            IN /\ ( \/ Strip(in.name) = "" \/ Strip(in.key) = ""
                    \/ (in.stype = "upload" /\ ~in.known)
                    \/ (in.stype = "youtube" /\ in.res # "ok") ) => ret[t] # "OK"
               /\ ret[t] # "OK" =>
                     active_streams = op[t].reg /\ streams = op[t].objs
               /\ ret[t] = "OK" =>
                     /\ Len(streams) = n + 1
                     /\ SubSeq(streams, 1, n) = op[t].objs
                     /\ active_streams = Append(op[t].reg, streams[n + 1].stream_id)
                     /\ streams[n + 1].status = "Ready"
                     /\ ~streams[n + 1].is_streaming
                     /\ streams[n + 1].process = NoProcess
                     /\ streams[n + 1].start_time = NoTime

\* a create was accepted while another stream was running
C15_Witness ==
    \E t \in Threads :
        /\ Done(t) /\ op[t].kind = "create" /\ ret[t] = "OK"
        /\ \E id \in RegisteredIds : streams[id].is_streaming

\* C16 (CDSpec): the streams ever created carry pairwise distinct ids, and so do
\* the views returned by accepted creates; every key of the registry is the id
\* stored in the stream it maps to; no key was inserted twice.
C16_DistinctIds ==
    /\ \A i, j \in Created :
          i # j => streams[i].stream_id # streams[j].stream_id
    /\ \A t, u \in Threads :
          ( /\ t # u /\ Done(t) /\ Done(u)
            /\ op[t].kind = "create" /\ op[u].kind = "create"
            /\ ret[t] = "OK" /\ ret[u] = "OK" )
          => frame[t].acc[1].stream_id # frame[u].acc[1].stream_id
    /\ \A id \in RegisteredIds : streams[id].stream_id = id
    /\ \A i, j \in 1..Len(active_streams) :
          (i # j /\ active_streams[i] # NoId) => active_streams[i] # active_streams[j]

\* two creates that ran side by side were both accepted
C16_Witness ==
    /\ \A t \in Threads : Done(t) /\ op[t].kind = "create" /\ ret[t] = "OK"
    /\ Len(streams) >= 2

\* destination keys with which a second run may replace the ones of this run
KeyVariants == {"k1", "k2"}

\* the stream as it is in a run that differs in this stream's destination key
WithKey(s, k) == [s EXCEPT !.stream_key = k]

\* the names of the fields a view or a list entry carries
ViewFields ==
    {"stream_id", "stream_name", "source_type", "source_path", "video_info",
     "is_streaming", "status", "duration", "start_time"}

C18_Terminates ==
    /\ (p_pc = "check") ~>
          (p_pc = "done" /\ p_result \in
              {"Success", "ExtractionError", "PipelineError", "TimeoutError"})
    /\ [][p_pc = "done" =>
             (p_pc' = "done" /\ p_now' = p_now /\ p_reqs' = p_reqs
              /\ p_fetches' = p_fetches /\ p_result' = p_result)]_vars

\* the call returned at the deadline after result fetches that failed
C18_Witness ==
    /\ p_pc = "done" /\ p_result = "TimeoutError"
    /\ p_fetches = FetchCap /\ p_reqs = CountCap

\* C19 (Spec): every encoder that was launched and has not exited is the process
\* handle of exactly one stream that is in the registry.
C19_NoOrphanEncoder ==
    \A p \in 1..Len(procs) :
        procs[p].state # "exited" =>
            Cardinality({id \in RegisteredIds : streams[id].process = p}) = 1

\* C20 (PollSpec): a call that returns Success returns the payload produced by
\* its own job.
C20_OwnPayload ==
    p_result = "Success" => p_payload = "own"

====
